---- MODULE Spec2Model ----
(***************************************************************************)
(* extract_text_from_url of podgenUI.py: one call, from the HTTP request   *)
(* to the returned text or the raised exception.  A page is a parsed       *)
(* element tree, kept as the sequence of its nodes in document order; a    *)
(* string is a sequence of one-character strings.                          *)
(***************************************************************************)
EXTENDS Integers, Sequences, FiniteSets, TLC

\* ------------------------------------------------------------------ bounds
MaxNodes == 4

\* ------------------------------------------------------- program constants
MinDivLen == 50

Boilerplate ==
  {"script", "style", "meta", "link", "noscript", "header", "footer", "nav", "aside"}

ScopeTags == {"main", "article"}

HeadingTags == {"h1", "h2", "h3", "h4", "h5", "h6"}

TextTags == HeadingTags \cup {"p"}

FetchFailures == {"ConnectionError", "Timeout", "HTTPError"}

Whitespace == {" ", "\n", "\t"}

\* ------------------------------------------------------------------ strings
RECURSIVE Rep(_, _)
Rep(c, n) == IF n = 0 THEN <<>> ELSE <<c>> \o Rep(c, n - 1)

RECURSIVE FirstInk(_, _)
\* index of the first non-whitespace character at or after i, Len(s)+1 if none
FirstInk(s, i) ==
  IF i > Len(s) THEN i
  ELSE IF s[i] \in Whitespace THEN FirstInk(s, i + 1) ELSE i

RECURSIVE LastInk(_, _)
\* index of the last non-whitespace character at or before i, 0 if none
LastInk(s, i) ==
  IF i < 1 THEN 0
  ELSE IF s[i] \in Whitespace THEN LastInk(s, i - 1) ELSE i

\* str.strip()
Strip(s) ==
  LET a == FirstInk(s, 1)
      b == LastInk(s, Len(s))
  IN  IF a > b THEN <<>> ELSE SubSeq(s, a, b)

\* index of the first newline at or after i, Len(s)+1 if none
LineEnd(s, i) ==
  LET newlines == {k \in i..Len(s) : s[k] = "\n"}
  IN  IF newlines = {} THEN Len(s) + 1
      ELSE CHOOSE k \in newlines : \A m \in newlines : k <= m

RECURSIVE RunEnd(_, _)
\* last index of the whitespace run that starts at i (s[i] is whitespace)
RunEnd(s, i) ==
  IF i < Len(s) /\ s[i + 1] \in Whitespace THEN RunEnd(s, i + 1) ELSE i

RECURSIVE LastNewline(_, _, _)
\* the largest j in lo..hi with s[j] a newline, 0 if none
LastNewline(s, lo, hi) ==
  IF hi < lo THEN 0
  ELSE IF s[hi] = "\n" THEN hi ELSE LastNewline(s, lo, hi - 1)

RECURSIVE CollapseBlankFrom(_, _)
CollapseBlankFrom(s, i) ==
  IF i > Len(s) THEN <<>>
  ELSE IF s[i] = "\n"
       THEN LET j == LastNewline(s, i + 1, RunEnd(s, i))
            IN  IF j > 0
                THEN <<"\n", "\n">> \o CollapseBlankFrom(s, j + 1)
                ELSE <<"\n">> \o CollapseBlankFrom(s, i + 1)
       ELSE LET e == LineEnd(s, i)
            IN  SubSeq(s, i, e - 1) \o CollapseBlankFrom(s, e)

\* re.sub(r'\n\s*\n', '\n\n', text): leftmost, greedy, non-overlapping
CollapseBlank(s) == CollapseBlankFrom(s, 1)

\* the per-line strip left out
StripLinesSkipped(s) == s

RECURSIVE StripLinesFrom(_, _)
StripLinesFrom(s, i) ==
  LET e == LineEnd(s, i)
      line == Strip(SubSeq(s, i, e - 1))
  IN  IF e > Len(s) THEN line
      ELSE line \o <<"\n">> \o StripLinesFrom(s, e + 1)

\* '\n'.join(line.strip() for line in text.split('\n'))
StripLines(s) == StripLinesFrom(s, 1)

RECURSIVE NewlineRunEnd(_, _)
NewlineRunEnd(s, i) ==
  IF i < Len(s) /\ s[i + 1] = "\n" THEN NewlineRunEnd(s, i + 1) ELSE i

RECURSIVE CollapseNewlinesFrom(_, _)
CollapseNewlinesFrom(s, i) ==
  IF i > Len(s) THEN <<>>
  ELSE IF s[i] = "\n"
       THEN LET j == NewlineRunEnd(s, i)
            IN  IF j - i + 1 >= 3
                THEN <<"\n", "\n">> \o CollapseNewlinesFrom(s, j + 1)
                ELSE SubSeq(s, i, j) \o CollapseNewlinesFrom(s, j + 1)
       ELSE LET e == LineEnd(s, i)
            IN  SubSeq(s, i, e - 1) \o CollapseNewlinesFrom(s, e)

\* re.sub(r'\n\n\n+', '\n\n', text)
CollapseNewlines(s) == CollapseNewlinesFrom(s, 1)

\* the clean-up of the joined text, up to the final strip
Normalise(s) == Strip(CollapseNewlines(StripLines(CollapseBlank(s))))

\* -------------------------------------------------------------------- trees
\* A node is [name, parent, text]: name is the tag name, "#text" for a text
\* node; parent is the index of the parent node, 0 for the soup object; text
\* is the content of a text node and <<>> for an element.
TextNode(p, t) == [name |-> "#text", parent |-> p, text |-> t]

Element(k, p) == [name |-> k, parent |-> p, text |-> <<>>]

RECURSIVE AncestorsOrSelf(_, _)
AncestorsOrSelf(d, i) ==
  IF i = 0 THEN {0} ELSE {i} \cup AncestorsOrSelf(d, d[i].parent)

\* the nodes a node appended to d can hang under: the soup and the elements
\* still open at the end of d
OpenElements(d) ==
  IF d = <<>> THEN {0}
  ELSE {q \in AncestorsOrSelf(d, Len(d)) : q = 0 \/ d[q].name # "#text"}

LastChildIsText(d, q) ==
  LET kids == {i \in DOMAIN d : d[i].parent = q}
  IN  kids # {} /\ d[CHOOSE i \in kids : \A j \in kids : j <= i].name = "#text"

\* the trees of one more node than d; the parser merges adjacent strings, so
\* a text node never follows a text sibling
Extensions(d, tags, texts) ==
  {Append(d, Element(k, p)) : k \in tags, p \in OpenElements(d)}
  \cup {Append(d, TextNode(p, t)) :
          t \in texts, p \in {q \in OpenElements(d) : ~LastChildIsText(d, q)}}

\* -------------------------------------------------------------------- state
VARIABLES
  pc,              \* the statement the call is at
  page,            \* the document behind the URL, as the parser builds it
  parsed,          \* soup exists
  alive,           \* the nodes of page still in soup
  exc,             \* the exception caught by the except clause, "" if none
  raised,          \* the type of the exception the call raised, "" if none
  title,
  content_parts,   \* the emitted segments, in order
  processed_text,  \* the seen-set
  main_content,    \* the scope: a node of page, 0 for soup itself
  todo,            \* what is left of the list the running loop iterates
  text             \* the joined text, and at the end the returned string

vars ==
  <<pc, page, parsed, alive, exc, raised, title, content_parts,
    processed_text, main_content, todo, text>>

\* ------------------------------------------------------------- tree queries
RECURSIVE SortedFrom(_, _)
SortedFrom(S, i) ==
  IF S = {} THEN <<>>
  ELSE IF i \in S THEN <<i>> \o SortedFrom(S \ {i}, i + 1)
       ELSE SortedFrom(S, i + 1)

\* the proper descendants of root that are still in the tree
Descendants(root) ==
  {j \in alive : j # root /\ root \in AncestorsOrSelf(page, j)}

RECURSIVE Reverse(_)
Reverse(q) == IF q = <<>> THEN <<>> ELSE Reverse(Tail(q)) \o <<Head(q)>>

\* the matches last to first
FindAllBackwards(root, names) ==
  Reverse(SortedFrom({j \in Descendants(root) : page[j].name \in names}, 1))

\* root.find_all(names): the matching descendants in document order
FindAll(root, names) ==
  SortedFrom({j \in Descendants(root) : page[j].name \in names}, 1)

\* root.find(names): the first match, 0 for None
Find(root, names) ==
  LET found == FindAll(root, names)
  IN  IF found = <<>> THEN 0 ELSE found[1]

Children(i) == {j \in alive : page[j].parent = i}

None == <<"None">>

RECURSIVE StringOf(_)
\* Tag.string: the single string below the tag, None unless every level has
\* exactly one child
StringOf(i) ==
  IF Cardinality(Children(i)) # 1 THEN None
  ELSE LET c == CHOOSE j \in Children(i) : TRUE
       IN  IF page[c].name = "#text" THEN page[c].text ELSE StringOf(c)

RECURSIVE JoinStripped(_)
JoinStripped(nodes) ==
  IF nodes = <<>> THEN <<>>
  ELSE Strip(page[Head(nodes)].text) \o JoinStripped(Tail(nodes))

\* element.get_text(strip=True): every string below the element stripped,
\* the empty ones dropped, the rest joined with the empty separator
GetText(i) == JoinStripped(FindAll(i, {"#text"}))

\* -------------------------------------------------------------- the segments
Segment(kind, t, src, s) == [kind |-> kind, text |-> t, src |-> src, str |-> s]

TitlePart(t) == t \o <<"\n", "\n">>

HeadingPart(t) == <<"\n">> \o t \o <<"\n">>

ParagraphPart(t) == t \o <<"\n", "\n">>

\* the seen-set not consulted
ShouldEmitUnseen(t, seen) == t # <<>>

\* line 205: only text that is non-empty and not processed yet
ShouldEmit(t, seen) == t # <<>> /\ t \notin seen

\* the floor off by one
DivQualifiesFromFloor(t, seen) == t # <<>> /\ Len(t) >= MinDivLen /\ t \notin seen

\* line 219
DivQualifies(t, seen) == t # <<>> /\ Len(t) > MinDivLen /\ t \notin seen

\* line 217: element.find(['p', 'h1', ...]) is None
IsLeafLike(i) == Find(i, TextTags) = 0

RECURSIVE Concat(_)
Concat(parts) ==
  IF parts = <<>> THEN <<>> ELSE Head(parts).str \o Concat(Tail(parts))

\* ------------------------------------------------------------------ actions
RECURSIVE Grown(_, _, _, _)
\* page is d or a tree grown from d by at most n more nodes
Grown(d, tags, texts, n) ==
  \/ page = d
  \/ /\ n > 0
     /\ \E e \in Extensions(d, tags, texts) : Grown(e, tags, texts, n - 1)

InitOn(tags, texts) ==
  /\ Grown(<<>>, tags, texts, MaxNodes)
  /\ pc = "request"
  /\ parsed = FALSE
  /\ alive = {}
  /\ exc = ""
  /\ raised = ""
  /\ title = <<>>
  /\ content_parts = <<>>
  /\ processed_text = {}
  /\ main_content = 0
  /\ todo = <<>>
  /\ text = <<>>

\* requests.get and raise_for_status succeed
RequestOk ==
  /\ pc = "request"
  /\ pc' = "parse"
  /\ UNCHANGED <<page, parsed, alive, exc, raised, title, content_parts,
                 processed_text, main_content, todo, text>>

\* requests.get or raise_for_status raises
RequestFails ==
  /\ pc = "request"
  /\ \E f \in FetchFailures : exc' = f
  /\ pc' = "except"
  /\ UNCHANGED <<page, parsed, alive, raised, title, content_parts,
                 processed_text, main_content, todo, text>>

Parse ==
  /\ pc = "parse"
  /\ parsed' = TRUE
  /\ alive' = DOMAIN page
  /\ pc' = "clean"
  /\ UNCHANGED <<page, exc, raised, title, content_parts, processed_text,
                 main_content, todo, text>>

Range(f) == {f[i] : i \in DOMAIN f}

\* what element.decompose() takes out of the tree
DecomposeUnwrap(i) == {i}

Decompose(i) == {i} \cup Descendants(i)

\* what is left after the loop over soup([...boilerplate names...])
Decomposed ==
  alive \ UNION {Decompose(m) : m \in Range(FindAll(0, Boilerplate))}

RemoveBoilerplate ==
  /\ pc = "clean"
  /\ alive' = Decomposed
  /\ pc' = "title"
  /\ UNCHANGED <<page, parsed, exc, raised, title, content_parts,
                 processed_text, main_content, todo, text>>

\* the title not registered
TitleSeenForgotten(t) == {}

\* lines 195-197: the title goes into the seen-set
TitleSeen(t) == IF t # <<>> THEN {t} ELSE {}

\* soup.title.string.strip(), or "" without a title element
TitleString ==
  LET t == Find(0, {"title"})
  IN  IF t = 0 THEN <<>> ELSE StringOf(t)

CaptureTitle ==
  /\ pc = "title"
  /\ LET s == TitleString
     IN  IF s = None
         THEN /\ exc' = "AttributeError"
              /\ pc' = "except"
              /\ UNCHANGED <<title, content_parts, processed_text>>
         ELSE LET t == Strip(s)
              IN  /\ title' = t
                  /\ content_parts' =
                       IF t # <<>> THEN <<Segment("title", t, Find(0, {"title"}), TitlePart(t))>>
                       ELSE <<>>
                  /\ processed_text' = TitleSeen(t)
                  /\ pc' = "scope"
                  /\ exc' = exc
  /\ UNCHANGED <<page, parsed, alive, raised, main_content, todo, text>>

\* article elements not looked for
MainContentMainOnly == Find(0, {"main"})

\* soup.find(['main', 'article']) or soup
MainContent == Find(0, ScopeTags)

SelectScope ==
  /\ pc = "scope"
  /\ main_content' = MainContent
  /\ todo' = FindAll(MainContent, TextTags)
  /\ pc' = "texts"
  /\ UNCHANGED <<page, parsed, alive, exc, raised, title, content_parts,
                 processed_text, text>>

\* one iteration of the heading and paragraph loop
TextElement ==
  /\ pc = "texts"
  /\ todo # <<>>
  /\ LET e == Head(todo)
         t == GetText(e)
     IN  IF ShouldEmit(t, processed_text)
         THEN /\ processed_text' = processed_text \cup {t}
              /\ content_parts' =
                   Append(content_parts,
                          IF page[e].name \in HeadingTags
                          THEN Segment("heading", t, e, HeadingPart(t))
                          ELSE Segment("paragraph", t, e, ParagraphPart(t)))
         ELSE UNCHANGED <<processed_text, content_parts>>
  /\ todo' = Tail(todo)
  /\ UNCHANGED <<pc, page, parsed, alive, exc, raised, title, main_content, text>>

TextElementsDone ==
  /\ pc = "texts"
  /\ todo = <<>>
  /\ todo' = FindAll(main_content, {"div"})
  /\ pc' = "divs"
  /\ UNCHANGED <<page, parsed, alive, exc, raised, title, content_parts,
                 processed_text, main_content, text>>

\* one iteration of the div loop
DivElement ==
  /\ pc = "divs"
  /\ todo # <<>>
  /\ LET e == Head(todo)
         t == GetText(e)
     IN  IF IsLeafLike(e) /\ DivQualifies(t, processed_text)
         THEN /\ processed_text' = processed_text \cup {t}
              /\ content_parts' =
                   Append(content_parts, Segment("text-block", t, e, ParagraphPart(t)))
         ELSE UNCHANGED <<processed_text, content_parts>>
  /\ todo' = Tail(todo)
  /\ UNCHANGED <<pc, page, parsed, alive, exc, raised, title, main_content, text>>

\* ''.join(content_parts)
Join ==
  /\ pc = "divs"
  /\ todo = <<>>
  /\ text' = Concat(content_parts)
  /\ pc' = "cleanup"
  /\ UNCHANGED <<page, parsed, alive, exc, raised, title, content_parts,
                 processed_text, main_content, todo>>

\* the three rewrites of the joined text
CleanUp ==
  /\ pc = "cleanup"
  /\ text' = CollapseNewlines(StripLines(CollapseBlank(text)))
  /\ pc' = "return"
  /\ UNCHANGED <<page, parsed, alive, exc, raised, title, content_parts,
                 processed_text, main_content, todo>>

\* return text.strip()
Return ==
  /\ pc = "return"
  /\ text' = Strip(text)
  /\ pc' = "done"
  /\ UNCHANGED <<page, parsed, alive, exc, raised, title, content_parts,
                 processed_text, main_content, todo>>

\* the type of the exception the except clause raises for a caught e
Wrapped(e) == "Exception"

\* except Exception as e: raise Exception(...)
Raise ==
  /\ pc = "except"
  /\ raised' = Wrapped(exc)
  /\ pc' = "raised"
  /\ UNCHANGED <<page, parsed, alive, exc, title, content_parts,
                 processed_text, main_content, todo, text>>

Next ==
  \/ RequestOk
  \/ RequestFails
  \/ Parse
  \/ RemoveBoilerplate
  \/ CaptureTitle
  \/ SelectScope
  \/ TextElement
  \/ TextElementsDone
  \/ DivElement
  \/ Join
  \/ CleanUp
  \/ Return
  \/ Raise

\* ---------------------------------------------------------------- the pages
Short == <<"a">>

Blank == <<" ">>

Exact == Rep("x", MinDivLen)

Long == Rep("x", MinDivLen + 1)

Tidy == <<"a", "\n", "\n", "b">>

Messy == <<"a", " ", "\n", "\n", "\n", "\t", "b", " ">>

LongMessy ==
  Rep("x", MinDivLen \div 2) \o <<" ", "\n", " ", "\n", "\n">> \o Rep("y", MinDivLen \div 2)

\* pages with a title, headings, paragraphs and divs
Init == InitOn({"title", "h2", "p", "div"}, {Short, Blank, Long})

Spec == Init /\ [][Next]_vars

\* pages with main and article elements
InitScope == InitOn({"main", "article", "p", "div"}, {Short, Long})

SpecScope == InitScope /\ [][Next]_vars

\* pages with boilerplate
InitClean == InitOn({"header", "title", "main", "p", "div"}, {Short, Long})

SpecClean == InitClean /\ [][Next]_vars

\* pages with nested divs and inline elements, texts around the floor
InitDiv == InitOn({"main", "div", "p", "b"}, {Short, Exact, Long})

SpecDiv == InitDiv /\ [][Next]_vars

\* pages whose texts hold spaces, tabs and newlines
InitText == InitOn({"title", "h1", "p", "div"}, {Tidy, Messy, LongMessy})

SpecText == InitText /\ [][Next]_vars

\* --------------------------------------------------- the page, as it was read
Segs == DOMAIN content_parts

InBoilerplate(j) ==
  \E a \in AncestorsOrSelf(page, j) : a # 0 /\ page[a].name \in Boilerplate

Under(j, r) == r = 0 \/ (r # j /\ r \in AncestorsOrSelf(page, j))

RECURSIVE KeptTextFrom(_, _)
KeptTextFrom(r, k) ==
  IF k > Len(page) THEN <<>>
  ELSE (IF page[k].name = "#text" /\ Under(k, r) /\ ~InBoilerplate(k)
        THEN Strip(page[k].text) ELSE <<>>) \o KeptTextFrom(r, k + 1)

\* the text of the strings below r that lie in no boilerplate element
KeptText(r) == KeptTextFrom(r, 1)

\* the first main or article element outside boilerplate, 0 if there is none
FirstScope ==
  LET scopes == {i \in DOMAIN page : page[i].name \in ScopeTags /\ ~InBoilerplate(i)}
  IN  IF scopes = {} THEN 0 ELSE CHOOSE i \in scopes : \A j \in scopes : i <= j

PassesDone == pc \in {"cleanup", "return", "done"}

EmittedTexts == {content_parts[i].text : i \in Segs}

\* ------------------------------------------------------------------- claims
\* C1: whatever the parsed page lacks or garbles, extraction returns a string;
\* the call ends in an error only when the retrieval failed.
C1_ErrorOnlyFromRetrieval == pc = "raised" => exc \in FetchFailures

\* C2: at every step no two emitted segments have the same text, every
\* emitted text is in the seen-set, and with a non-empty title the title
\* segment is the only segment that carries the title's text.
C2_NoDuplicateSegment ==
  /\ \A i, j \in Segs : i # j => content_parts[i].text # content_parts[j].text
  /\ \A i \in Segs : content_parts[i].text \in processed_text
  /\ title # <<>> =>
       /\ content_parts # <<>>
       /\ content_parts[1].kind = "title" /\ content_parts[1].text = title
       /\ \A i \in Segs : i # 1 => content_parts[i].text # title

C2_Witness ==
  /\ pc = "done"
  /\ title # <<>>
  /\ \E e \in Descendants(main_content) :
       page[e].name \in TextTags \cup {"div"} /\ GetText(e) = title

\* C7 as stated: the title segment is first and the segments of headings,
\* paragraphs and divs follow in the document order of their elements.
C7_DocumentOrder ==
  /\ \A i \in Segs : content_parts[i].kind = "title" => i = 1
  /\ \A i, j \in Segs :
       (i < j /\ content_parts[i].kind # "title" /\ content_parts[j].kind # "title")
         => content_parts[i].src < content_parts[j].src

\* C7 amended: the title segment is first; the heading and paragraph segments
\* follow in the document order of their elements; the text-block segments
\* come after all of them, in the document order of their divs.
C7_PassOrder ==
  /\ \A i \in Segs : content_parts[i].kind = "title" => i = 1
  /\ \A i, j \in Segs :
       (i < j /\ content_parts[i].kind # "title")
         => /\ content_parts[j].kind # "title"
            /\ content_parts[i].kind = "text-block" => content_parts[j].kind = "text-block"
            /\ (content_parts[i].kind = "text-block") = (content_parts[j].kind = "text-block")
                 => content_parts[i].src < content_parts[j].src

C7_Witness ==
  /\ pc = "done"
  /\ \E i, j \in Segs :
       /\ i < j
       /\ content_parts[i].kind \in {"heading", "paragraph"}
       /\ content_parts[j].kind = "text-block"
       /\ content_parts[j].src < content_parts[i].src

\* what a segment's text becomes under the clean-up of the joined text
Rendered(i) == Normalise(content_parts[i].text)

IsTidy(t) == Normalise(t) = t

\* between two blocks: one newline after a heading that no heading follows,
\* a blank line otherwise
Separator(i) ==
  IF content_parts[i].kind = "heading" /\ content_parts[i + 1].kind # "heading"
  THEN <<"\n">> ELSE <<"\n", "\n">>

RECURSIVE BlocksFrom(_)
BlocksFrom(i) ==
  IF i > Len(content_parts) THEN <<>>
  ELSE IF i = Len(content_parts) THEN Rendered(i)
       ELSE Rendered(i) \o Separator(i) \o BlocksFrom(i + 1)

\* C3 as stated: in the returned string the renderings of the emitted
\* segments are pairwise distinct.
C3_DistinctRenderings ==
  pc = "done" => \A i, j \in Segs : i # j => Rendered(i) # Rendered(j)

\* C3 amended: the returned string is the renderings of the emitted segments
\* in order; the segments' texts are pairwise distinct before the clean-up,
\* and two segments whose texts the clean-up leaves unchanged have distinct
\* renderings.
C3_DistinctTidyRenderings ==
  pc = "done" =>
    /\ text = BlocksFrom(1)
    /\ \A i, j \in Segs : i # j =>
         /\ content_parts[i].text # content_parts[j].text
         /\ (IsTidy(content_parts[i].text) /\ IsTidy(content_parts[j].text))
              => Rendered(i) # Rendered(j)

C3_Witness ==
  /\ pc = "done"
  /\ \E i, j \in Segs :
       i # j /\ IsTidy(content_parts[i].text) /\ IsTidy(content_parts[j].text)

NoTripleNewline(s) ==
  \A i \in 1..(Len(s) - 2) : ~(s[i] = "\n" /\ s[i + 1] = "\n" /\ s[i + 2] = "\n")

\* every space or tab has a character other than a newline on both sides
LinesTrimmed(s) ==
  \A i \in DOMAIN s :
    s[i] \in Whitespace \ {"\n"} =>
      /\ 1 < i /\ i < Len(s)
      /\ s[i - 1] # "\n" /\ s[i + 1] # "\n"

Trimmed(s) == s # <<>> => (s[1] \notin Whitespace /\ s[Len(s)] \notin Whitespace)

\* C4: the returned string has no three newlines in a row, no line that
\* starts or ends with whitespace, and no whitespace at either end.
C4_NormalisedOutput ==
  pc = "done" => NoTripleNewline(text) /\ LinesTrimmed(text) /\ Trimmed(text)

C4_Witness ==
  /\ pc = "done"
  /\ Len(content_parts) >= 2
  /\ ~NoTripleNewline(Concat(content_parts))
  /\ ~LinesTrimmed(Concat(content_parts))

HasNestedTextTag(d) ==
  \E j \in DOMAIN page : j # d /\ Under(j, d) /\ page[j].name \in TextTags /\ ~InBoilerplate(j)

InScope(e) == ~InBoilerplate(e) /\ e # FirstScope /\ Under(e, FirstScope)

TextBlockFrom(d) ==
  \E i \in Segs : content_parts[i].src = d /\ content_parts[i].kind = "text-block"

C6_ScopeRestricts ==
  /\ \A i \in Segs : content_parts[i].kind # "title" => InScope(content_parts[i].src)
  /\ PassesDone =>
       \A e \in DOMAIN page : InScope(e) =>
         /\ (page[e].name \in TextTags /\ KeptText(e) # <<>>) => KeptText(e) \in EmittedTexts
         /\ (page[e].name = "div" /\ ~HasNestedTextTag(e) /\ Len(KeptText(e)) > 50)
              => KeptText(e) \in EmittedTexts

C6_Witness ==
  /\ pc = "done"
  /\ FirstScope # 0
  /\ \E e \in DOMAIN page :
       /\ page[e].name \in TextTags \cup {"div"}
       /\ ~Under(e, FirstScope)
       /\ KeptText(e) # <<>>
       /\ KeptText(e) \notin EmittedTexts

FirstTitle ==
  LET titles == {i \in DOMAIN page : page[i].name = "title" /\ ~InBoilerplate(i)}
  IN  IF titles = {} THEN 0 ELSE CHOOSE i \in titles : \A j \in titles : i <= j

\* C8: once the boilerplate is removed nothing inside a boilerplate element
\* is left in the tree; the title, the scope and every segment come from
\* elements outside boilerplate, and a segment's text is made of the strings
\* outside boilerplate only.
C8_BoilerplateGone ==
  /\ pc \notin {"request", "parse", "clean"} => \A j \in alive : ~InBoilerplate(j)
  /\ ~InBoilerplate(main_content)
  /\ pc \in {"texts", "divs"} \cup {"cleanup", "return", "done"} => main_content = FirstScope
  /\ \A i \in Segs :
       /\ ~InBoilerplate(content_parts[i].src)
       /\ content_parts[i].text = KeptText(content_parts[i].src)
       /\ content_parts[i].kind = "title" => content_parts[i].src = FirstTitle

C8_Witness ==
  /\ pc = "done"
  /\ \E e \in DOMAIN page :
       /\ page[e].name \in TextTags \cup {"div", "title"}
       /\ InBoilerplate(e)
       /\ \E j \in DOMAIN page : Under(j, e) /\ j # e /\ Strip(page[j].text) # <<>>

\* C9: a retrieval failure is raised before the page is parsed and as an
\* exception type that no failure of the extraction steps is raised as.
C9_RetrievalFailureDistinct ==
  pc = "raised" =>
    /\ exc \in FetchFailures => ~parsed
    /\ exc \notin FetchFailures => \A f \in FetchFailures : raised # Wrapped(f)

RECURSIVE SpacedFrom(_, _, _)
\* the strings of nodes, each trimmed, with one space wherever whitespace
\* separated two of them
SpacedFrom(nodes, acc, gap) ==
  IF nodes = <<>> THEN acc
  ELSE LET n == page[Head(nodes)].text
           t == Strip(n)
       IN  IF t = <<>> THEN SpacedFrom(Tail(nodes), acc, gap \/ n # <<>>)
           ELSE SpacedFrom(Tail(nodes),
                           acc \o (IF acc # <<>> /\ (gap \/ n[1] \in Whitespace)
                                   THEN <<" ">> ELSE <<>>) \o t,
                           n[Len(n)] \in Whitespace)

\* C10: the text of a heading or paragraph segment is the element's strings
\* with the whitespace between adjacent strings collapsed to one space and
\* the outer whitespace trimmed.
C10_SpaceBetweenStrings ==
  \A i \in Segs : content_parts[i].kind \in {"heading", "paragraph"} =>
    content_parts[i].text = SpacedFrom(FindAll(content_parts[i].src, {"#text"}), <<>>, FALSE)

====
